---- MODULE Spec2Model ----
(***************************************************************************)
(* A model of litestar's `run` command (src/litestar/cli/commands/core.py): *)
(* the resolution of the run configuration, the server lifespan scope      *)
(* (_server_lifespan, an ExitStack inside a generator context manager),    *)
(* the choice between uvicorn.run and a uvicorn child process, and the     *)
(* conversion of the option mapping into command-line tokens.              *)
(***************************************************************************)
EXTENDS Integers, Sequences, FiniteSets, TLC

VARIABLES
    pc,              \* position of run_command
    cli,             \* the option bundle click passes to run_command
    env,             \* the LitestarEnv that ctx.obj is, or resolves to
    UVICORN_INSTALLED,
    obj_callable,    \* callable(ctx.obj) at entry
    environ,         \* names set in os.environ by run_command
    app_attrs,       \* attributes run_command set on ctx.obj.app
    loc,             \* run_command's locals after lines 202-213
    tls,             \* (certfile_path, keyfile_path) and the operation called
    managers,        \* app._server_lifespan_managers: the kind of each
    idx,             \* managers the for loop of _server_lifespan has finished
    obtained,        \* the current factory has been called (line 50)
    stack,           \* ExitStack._exit_callbacks, as manager indices
    trace,           \* what happened to managers and servers, in order
    exc,             \* the exception in flight
    received,        \* the exception ExitStack.__exit__ was called with
    suppressed_exc,  \* ExitStack.__exit__'s local
    pending_raise,   \* ExitStack.__exit__'s local
    phase,           \* where the lifespan scope was left from
    launches,        \* the servers started: strategy and arguments
    result,          \* how run_command ended
    args,            \* _convert_uvicorn_args: the mapping, as (key, value) pairs
    process_args     \* _convert_uvicorn_args: the tokens so far

vars == <<pc, cli, env, UVICORN_INSTALLED, obj_callable, environ, app_attrs,
          loc, tls, managers, idx, obtained, stack, trace, exc, received,
          suppressed_exc, pending_raise, phase, launches, result, args,
          process_args>>

(***************************************************************************)
(* Bounds of the model.                                                    *)
(***************************************************************************)
\* the longest list of lifespan managers (specification Spec)
MaxManagers == 3
\* how many options and environment attributes differ from their defaults
\* at once (specification SpecConfig)
MaxOptions == 2
\* the longest list of lifespan managers under SpecConfig
MaxConfigManagers == 1
\* the size of the largest mapping given to _convert_uvicorn_args
MaxArgs == 3

(***************************************************************************)
(* Python values, tagged with their type.                                  *)
(***************************************************************************)
None == [t |-> "none"]
B(b) == [t |-> "bool", v |-> b]
I(n) == [t |-> "int", v |-> n]
S(s) == [t |-> "str", v |-> s]
T(q) == [t |-> "tuple", v |-> q]

\* bool(x)
Truthy(x) ==
    CASE x.t = "none" -> FALSE
      [] x.t = "bool" -> x.v
      [] x.t = "int" -> x.v /= 0
      [] x.t = "str" -> x.v /= ""
      [] x.t = "tuple" -> x.v /= <<>>

\* x or y
Or(x, y) == IF Truthy(x) THEN x ELSE y

\* x if x is not None else y
IfNotNone(x, y) == IF x /= None THEN x ELSE y

\* str(x), as an f-string formats a value
Str(x) ==
    CASE x.t = "none" -> "None"
      [] x.t = "bool" -> (IF x.v THEN "True" ELSE "False")
      [] x.t = "int" -> ToString(x.v)
      [] x.t = "str" -> x.v

(***************************************************************************)
(* Exceptions.                                                             *)
(***************************************************************************)
NoExc == [type |-> "none", info |-> 0]
Exc(type, info) == [type |-> type, info |-> info]

(***************************************************************************)
(* The inputs of run_command.                                              *)
(***************************************************************************)
\* the option bundle when no flag is given: the defaults of the @option
\* decorators
CliDefaults ==
    [reload |-> B(FALSE), reload_dir |-> T(<<>>), port |-> I(8000),
     wc |-> I(1), host |-> S("127.0.0.1"), fd |-> None, uds |-> None,
     debug |-> B(FALSE), pdb |-> B(FALSE), ssl_certfile |-> None,
     ssl_keyfile |-> None, create_self_signed_cert |-> B(FALSE)]

\* a LitestarEnv that supplies nothing but the application
EnvDefaults ==
    [host |-> None, port |-> None, fd |-> None, uds |-> None,
     reload |-> None, reload_dirs |-> None, web_concurrency |-> None,
     certfile_path |-> None, keyfile_path |-> None,
     create_self_signed_cert |-> B(FALSE), is_app_factory |-> B(FALSE),
     app_path |-> S("app:app")]

Override(src, f, v) == [src |-> src, f |-> f, v |-> v]

\* the flags that can be given on the command line
CliOverrides ==
    {Override("cli", "reload", B(TRUE)),
     Override("cli", "reload_dir", T(<<S("a"), S("b")>>)),
     Override("cli", "port", I(9000)),
     Override("cli", "wc", I(4)),
     Override("cli", "host", S("0.0.0.0")),
     Override("cli", "fd", I(0)),
     Override("cli", "fd", I(3)),
     Override("cli", "uds", S("/c.sock")),
     Override("cli", "debug", B(TRUE)),
     Override("cli", "pdb", B(TRUE)),
     Override("cli", "ssl_certfile", S("c.pem")),
     Override("cli", "ssl_keyfile", S("k.pem")),
     Override("cli", "create_self_signed_cert", B(TRUE))}

\* the attributes the environment can supply
EnvOverrides ==
    {Override("env", "host", S("")),
     Override("env", "host", S("10.0.0.1")),
     Override("env", "port", I(0)),
     Override("env", "port", I(7000)),
     Override("env", "fd", I(0)),
     Override("env", "fd", I(5)),
     Override("env", "uds", S("")),
     Override("env", "uds", S("/e.sock")),
     Override("env", "reload", B(FALSE)),
     Override("env", "reload", B(TRUE)),
     Override("env", "reload_dirs", T(<<>>)),
     Override("env", "reload_dirs", T(<<S("e")>>)),
     Override("env", "web_concurrency", I(0)),
     Override("env", "web_concurrency", I(1)),
     Override("env", "web_concurrency", I(2)),
     Override("env", "certfile_path", S("ec.pem")),
     Override("env", "keyfile_path", S("ek.pem")),
     Override("env", "create_self_signed_cert", B(TRUE)),
     Override("env", "is_app_factory", B(TRUE))}

\* what surrounds the call: whether uvicorn imports, whether ctx.obj is
\* still the callable that loads the environment
SysOverrides ==
    {Override("sys", "UVICORN_INSTALLED", B(FALSE)),
     Override("sys", "obj_callable", B(TRUE))}

Overrides == CliOverrides \cup EnvOverrides \cup SysOverrides

Consistent(O) ==
    \A a \in O, b \in O : (a.src = b.src /\ a.f = b.f) => a = b

\* the sets of at most k overrides, no field overridden twice
RECURSIVE OverrideSets(_)
OverrideSets(k) ==
    IF k = 0 THEN {{}}
    ELSE LET P == OverrideSets(k - 1)
         IN  P \cup {Q \in {O \cup {o} : O \in P, o \in Overrides} : Consistent(Q)}

Apply(O, src, defaults) ==
    [f \in DOMAIN defaults |->
        IF \E o \in O : o.src = src /\ o.f = f
        THEN (CHOOSE o \in O : o.src = src /\ o.f = f).v
        ELSE defaults[f]]

SysDefaults == [UVICORN_INSTALLED |-> B(TRUE), obj_callable |-> B(FALSE)]

\* app._server_lifespan_managers: each entry is a context manager already,
\* or a callable that takes the application and returns one
ManagerKinds == {"context_manager", "factory"}
ManagerLists(n) == UNION {[1..k -> ManagerKinds] : k \in 0..n}

NoLoc == [reload_dirs |-> None, host |-> None, port |-> None, fd |-> None,
          uds |-> None, reload |-> None, workers |-> None,
          ssl_certfile |-> None, ssl_keyfile |-> None,
          create_self_signed_cert |-> None]
NoTls == [op |-> "none", certfile_path |-> None, keyfile_path |-> None]

\* every variable but pc and args
InitRest(O, m) ==
    /\ cli = Apply(O, "cli", CliDefaults)
    /\ env = Apply(O, "env", EnvDefaults)
    /\ UVICORN_INSTALLED = Apply(O, "sys", SysDefaults).UVICORN_INSTALLED.v
    /\ obj_callable = Apply(O, "sys", SysDefaults).obj_callable.v
    /\ environ = {}
    /\ app_attrs = {}
    /\ loc = NoLoc
    /\ tls = NoTls
    /\ managers = m
    /\ idx = 0
    /\ obtained = FALSE
    /\ stack = <<>>
    /\ trace = <<>>
    /\ exc = NoExc
    /\ received = NoExc
    /\ suppressed_exc = FALSE
    /\ pending_raise = FALSE
    /\ phase = "idle"
    /\ launches = <<>>
    /\ result = NoExc
    /\ process_args = <<>>

\* the state when run_command is called with the overrides O and the
\* manager list m
InitWith(O, m) ==
    /\ pc = "start"
    /\ args = <<>>
    /\ InitRest(O, m)

\* one option or attribute away from the defaults, any manager list
Init ==
    \E O \in {{}} \cup {{o} : o \in Overrides}, m \in ManagerLists(MaxManagers) :
        InitWith(O, m)

\* up to MaxOptions options and attributes away from the defaults
InitConfig ==
    \E O \in OverrideSets(MaxOptions),
       m \in ManagerLists(MaxConfigManagers) :
        InitWith(O, m)

(***************************************************************************)
(* run_command, lines 179-219: flags, the uvicorn guard, the environment,  *)
(* the configuration and the TLS files.                                    *)
(***************************************************************************)
\* lines 179-183 without the pdb branch
EnvironSet_DebugOnly(c) == IF c.debug.v THEN {"LITESTAR_DEBUG"} ELSE {}

\* lines 179-183: the variables run_command sets in os.environ
EnvironSet(c) ==
    (IF c.debug.v THEN {"LITESTAR_DEBUG"} ELSE {})
        \cup (IF c.pdb.v THEN {"LITESTAR_PDB"} ELSE {})

\* lines 179-183
SetEnviron ==
    /\ pc = "start"
    /\ environ' = environ \cup EnvironSet(cli)
    /\ pc' = "check_uvicorn"
    /\ UNCHANGED <<cli, env, UVICORN_INSTALLED, obj_callable, app_attrs, loc,
                   tls, managers, idx, obtained, stack, trace, exc, received,
                   suppressed_exc, pending_raise, phase, launches, result,
                   args, process_args>>

\* line 185 with the guard never taken
uvicorn_missing_Never(installed) == FALSE

\* line 185: if not UVICORN_INSTALLED
uvicorn_missing(installed) == ~installed

\* lines 185-189: console.print and sys.exit(1)
UvicornMissing ==
    /\ pc = "check_uvicorn"
    /\ uvicorn_missing(UVICORN_INSTALLED)
    /\ trace' = Append(trace, [ev |-> "print", m |-> 0,
                                out |-> "uvicorn is not installed"])
    /\ result' = Exc("SystemExit", 1)
    /\ pc' = "done"
    /\ UNCHANGED <<cli, env, UVICORN_INSTALLED, obj_callable, environ,
                   app_attrs, loc, tls, managers, idx, obtained, stack,
                   exc, received, suppressed_exc, pending_raise, phase,
                   launches, args, process_args>>

\* lines 191-200: ctx.obj is called, or the loaded application is flagged
ResolveApp ==
    /\ pc = "check_uvicorn"
    /\ ~uvicorn_missing(UVICORN_INSTALLED)
    /\ app_attrs' = IF obj_callable
                     THEN app_attrs
                     ELSE app_attrs
                            \cup (IF cli.debug.v THEN {"debug"} ELSE {})
                            \cup (IF cli.pdb.v THEN {"pdb_on_exception"} ELSE {})
    /\ pc' = "resolve"
    /\ UNCHANGED <<cli, env, UVICORN_INSTALLED, obj_callable, environ, loc,
                   tls, managers, idx, obtained, stack, trace, exc, received,
                   suppressed_exc, pending_raise, phase, launches, result,
                   args, process_args>>

\* line 202
reload_dirs(c, e) == Or(e.reload_dirs, c.reload_dir)
\* line 204
host(c, e) == Or(e.host, c.host)
\* line 205
port(c, e) == IfNotNone(e.port, c.port)
\* line 206
fd(c, e) == IfNotNone(e.fd, c.fd)
\* line 207
uds(c, e) == Or(e.uds, c.uds)
\* line 208 without `or bool(reload_dirs)`
reload_IgnoringDirs(c, e) == Or(Or(e.reload, c.reload), B(FALSE))

\* line 208
reload(c, e) == Or(Or(e.reload, c.reload), B(Truthy(reload_dirs(c, e))))
\* line 209
workers(c, e) == Or(e.web_concurrency, c.wc)
\* line 211 with the environment asked first, as for host
ssl_certfile_EnvFirst(c, e) == Or(e.certfile_path, c.ssl_certfile)

\* line 211
ssl_certfile(c, e) == Or(c.ssl_certfile, e.certfile_path)
\* line 212
ssl_keyfile(c, e) == Or(c.ssl_keyfile, e.keyfile_path)
\* line 213
create_self_signed_cert(c, e) ==
    Or(c.create_self_signed_cert, e.create_self_signed_cert)

\* lines 202-213
ResolveConfig ==
    /\ pc = "resolve"
    /\ loc' = [reload_dirs |-> reload_dirs(cli, env),
               host |-> host(cli, env),
               port |-> port(cli, env),
               fd |-> fd(cli, env),
               uds |-> uds(cli, env),
               reload |-> reload(cli, env),
               workers |-> workers(cli, env),
               ssl_certfile |-> ssl_certfile(cli, env),
               ssl_keyfile |-> ssl_keyfile(cli, env),
               create_self_signed_cert |-> create_self_signed_cert(cli, env)]
    /\ pc' = "ssl"
    /\ UNCHANGED <<cli, env, UVICORN_INSTALLED, obj_callable, environ,
                   app_attrs, tls, managers, idx, obtained, stack, trace, exc,
                   received, suppressed_exc, pending_raise, phase, launches,
                   result, args, process_args>>

\* litestar.cli._utils.validate_ssl_file_paths: an error when exactly one
\* path is given or a given path is no file, else the paths as given
validate_ssl_file_paths(certfile, keyfile, exist) ==
    IF certfile = None /\ keyfile = None
    THEN [error |-> FALSE, certfile_path |-> None, keyfile_path |-> None]
    ELSE IF certfile = None \/ keyfile = None \/ ~exist
    THEN [error |-> TRUE, certfile_path |-> None, keyfile_path |-> None]
    ELSE [error |-> FALSE, certfile_path |-> certfile, keyfile_path |-> keyfile]

\* litestar.cli._utils.create_ssl_files: the given or the default paths,
\* the files generated unless both exist
create_ssl_files(certfile, keyfile, h) ==
    [error |-> FALSE,
     certfile_path |-> IfNotNone(certfile, S("cert.pem")),
     keyfile_path |-> IfNotNone(keyfile, S("key.pem"))]

\* lines 215-223: the TLS files; a ConfigurationError ends the command
ProvisionTLS ==
    /\ pc = "ssl"
    /\ \E exist \in BOOLEAN :
          LET r == IF Truthy(loc.create_self_signed_cert)
                   THEN create_ssl_files(loc.ssl_certfile, loc.ssl_keyfile, loc.host)
                   ELSE validate_ssl_file_paths(loc.ssl_certfile, loc.ssl_keyfile, exist)
              op == IF Truthy(loc.create_self_signed_cert)
                    THEN "create_ssl_files" ELSE "validate_ssl_file_paths"
          IN  /\ tls' = [op |-> op, certfile_path |-> r.certfile_path,
                         keyfile_path |-> r.keyfile_path]
              /\ IF r.error
                 THEN /\ result' = Exc("ConfigurationError", 0)
                      /\ pc' = "done"
                 ELSE /\ result' = result
                      /\ pc' = "with"
    /\ UNCHANGED <<cli, env, UVICORN_INSTALLED, obj_callable, environ,
                   app_attrs, loc, managers, idx, obtained, stack, trace, exc,
                   received, suppressed_exc, pending_raise, phase, launches,
                   args, process_args>>

(***************************************************************************)
(* _server_lifespan, lines 41-53: a generator context manager around an    *)
(* ExitStack.                                                              *)
(***************************************************************************)
Ev(ev, m, out) == [ev |-> ev, m |-> m, out |-> out]

\* line 224 and line 47: the scope opens, the ExitStack is empty
OpenLifespan ==
    /\ pc = "with"
    /\ pc' = "for"
    /\ phase' = "entering"
    /\ UNCHANGED <<cli, env, UVICORN_INSTALLED, obj_callable, environ,
                   app_attrs, loc, tls, managers, idx, obtained, stack, trace,
                   exc, received, suppressed_exc, pending_raise, launches,
                   result, args, process_args>>

\* an exception inside the `with ExitStack()` block: __exit__ is called
\* with it
RaiseInStack(e) ==
    /\ exc' = e
    /\ received' = e
    /\ pc' = "exit_stack"

\* the yield inside the for loop: reached after the first manager
LoopDone_AfterFirst == idx >= 1 \/ idx = Len(managers)

\* line 48: the for loop has gone through every manager
LoopDone == idx = Len(managers)

\* line 49 with every manager taken for a context manager
NeedsCall_Never(kind) == FALSE

\* line 49: not isinstance(manager, AbstractContextManager)
NeedsCall(kind) == kind /= "context_manager"

\* lines 49-50: a manager that is no context manager is called with the app
CallFactory ==
    /\ pc = "for"
    /\ ~LoopDone
    /\ NeedsCall(managers[idx + 1])
    /\ ~obtained
    /\ \E out \in {"ok", "raise"} :
          /\ trace' = Append(trace, Ev("call", idx + 1, out))
          /\ IF out = "ok"
             THEN /\ obtained' = TRUE
                  /\ UNCHANGED <<exc, received, pc>>
             ELSE /\ obtained' = obtained
                  /\ RaiseInStack(Exc("FactoryError", idx + 1))
    /\ UNCHANGED <<cli, env, UVICORN_INSTALLED, obj_callable, environ,
                   app_attrs, loc, tls, managers, idx, stack, suppressed_exc,
                   pending_raise, phase, launches, result, args, process_args>>

\* line 51: ExitStack.enter_context calls __enter__ and, when that
\* returns, pushes __exit__
EnterContext ==
    /\ pc = "for"
    /\ ~LoopDone
    /\ ~NeedsCall(managers[idx + 1]) \/ obtained
    /\ \E out \in {"ok", "raise"} :
          /\ trace' = Append(trace, Ev("enter", idx + 1, out))
          /\ IF out = "ok"
             THEN /\ stack' = Append(stack, idx + 1)
                  /\ idx' = idx + 1
                  /\ obtained' = FALSE
                  /\ UNCHANGED <<exc, received, pc>>
             ELSE /\ UNCHANGED <<stack, idx, obtained>>
                  /\ RaiseInStack(Exc("EnterError", idx + 1))
    /\ UNCHANGED <<cli, env, UVICORN_INSTALLED, obj_callable, environ,
                   app_attrs, loc, tls, managers, suppressed_exc,
                   pending_raise, phase, launches, result, args, process_args>>

\* line 53: the loop is over, the generator yields to the body of
\* run_command's with statement
Yield ==
    /\ pc = "for"
    /\ LoopDone
    /\ pc' = "body"
    /\ phase' = "active"
    /\ UNCHANGED <<cli, env, UVICORN_INSTALLED, obj_callable, environ,
                   app_attrs, loc, tls, managers, idx, obtained, stack, trace,
                   exc, received, suppressed_exc, pending_raise, launches,
                   result, args, process_args>>

(***************************************************************************)
(* _convert_uvicorn_args, lines 56-67.                                     *)
(***************************************************************************)
\* lines 59-65 without the isinstance(value, bool) branch
Tokens_BoolAsScalar(arg, value) ==
    IF value.t = "tuple"
    THEN [i \in 1..Len(value.v) |-> "--" \o arg \o "=" \o Str(value.v[i])]
    ELSE <<"--" \o arg \o "=" \o Str(value)>>

\* lines 59-65: the tokens one item of the mapping adds
Tokens(arg, value) ==
    IF value.t = "bool"
    THEN IF value.v THEN <<"--" \o arg>> ELSE <<>>
    ELSE IF value.t = "tuple"
    THEN [i \in 1..Len(value.v) |-> "--" \o arg \o "=" \o Str(value.v[i])]
    ELSE <<"--" \o arg \o "=" \o Str(value)>>

\* lines 57-67: the items in the mapping's order, each one's tokens appended
RECURSIVE _convert_uvicorn_args(_)
_convert_uvicorn_args(a) ==
    IF a = <<>> THEN <<>>
    ELSE Tokens(a[1][1], a[1][2]) \o _convert_uvicorn_args(Tail(a))

(***************************************************************************)
(* The body of the with statement, lines 225-259, and                      *)
(* _run_uvicorn_in_subprocess, lines 70-103.                               *)
(***************************************************************************)
\* line 225 with `and not reload` left out
UseDirect_IgnoringReload(l) == l.workers = I(1)

\* line 225
UseDirect(l) == l.workers = I(1) /\ ~Truthy(l.reload)

\* lines 229-238 with the paths as given, not as the TLS function returned them
UvicornKwargs_UnresolvedPaths(l, e, t) ==
    [app |-> e.app_path, host |-> l.host, port |-> l.port, fd |-> l.fd,
     uds |-> l.uds, factory |-> e.is_app_factory,
     ssl_certfile |-> l.ssl_certfile, ssl_keyfile |-> l.ssl_keyfile]

\* lines 229-238: the keyword arguments of uvicorn.run
UvicornKwargs(l, e, t) ==
    [app |-> e.app_path, host |-> l.host, port |-> l.port, fd |-> l.fd,
     uds |-> l.uds, factory |-> e.is_app_factory,
     ssl_certfile |-> t.certfile_path, ssl_keyfile |-> t.keyfile_path]

\* lines 83-99 with the worker count under the name of its CLI flag
ProcessArgs_WrongWorkersKey(l, e, t) ==
    <<  <<"reload", l.reload>>, <<"host", l.host>>, <<"port", l.port>>,
        <<"web-concurrency", l.workers>>, <<"factory", e.is_app_factory>>  >>

\* lines 83-99 with the worker count as the first item of the mapping
ProcessArgs_WorkersFirst(l, e, t) ==
    <<  <<"workers", l.workers>>, <<"host", l.host>>, <<"port", l.port>>,
        <<"reload", l.reload>>, <<"factory", e.is_app_factory>>  >>
    \o (IF l.fd /= None THEN << <<"fd", l.fd>> >> ELSE <<>>)
    \o (IF l.uds /= None THEN << <<"uds", l.uds>> >> ELSE <<>>)
    \o (IF Truthy(l.reload_dirs) THEN << <<"reload-dir", l.reload_dirs>> >> ELSE <<>>)
    \o (IF t.certfile_path /= None
        THEN << <<"ssl-certfile", t.certfile_path>> >> ELSE <<>>)
    \o (IF t.keyfile_path /= None
        THEN << <<"ssl-keyfile", t.keyfile_path>> >> ELSE <<>>)

\* lines 83-99 with `if fd:` in place of `if fd is not None:`
ProcessArgs_FdTruthy(l, e, t) ==
    <<  <<"reload", l.reload>>, <<"host", l.host>>, <<"port", l.port>>,
        <<"workers", l.workers>>, <<"factory", e.is_app_factory>>  >>
    \o (IF Truthy(l.fd) THEN << <<"fd", l.fd>> >> ELSE <<>>)
    \o (IF l.uds /= None THEN << <<"uds", l.uds>> >> ELSE <<>>)
    \o (IF Truthy(l.reload_dirs) THEN << <<"reload-dir", l.reload_dirs>> >> ELSE <<>>)
    \o (IF t.certfile_path /= None
        THEN << <<"ssl-certfile", t.certfile_path>> >> ELSE <<>>)
    \o (IF t.keyfile_path /= None
        THEN << <<"ssl-keyfile", t.keyfile_path>> >> ELSE <<>>)

\* lines 83-99: the option mapping, in insertion order
ProcessArgs(l, e, t) ==
    <<  <<"reload", l.reload>>, <<"host", l.host>>, <<"port", l.port>>,
        <<"workers", l.workers>>, <<"factory", e.is_app_factory>>  >>
    \o (IF l.fd /= None THEN << <<"fd", l.fd>> >> ELSE <<>>)
    \o (IF l.uds /= None THEN << <<"uds", l.uds>> >> ELSE <<>>)
    \o (IF Truthy(l.reload_dirs) THEN << <<"reload-dir", l.reload_dirs>> >> ELSE <<>>)
    \o (IF t.certfile_path /= None
        THEN << <<"ssl-certfile", t.certfile_path>> >> ELSE <<>>)
    \o (IF t.keyfile_path /= None
        THEN << <<"ssl-keyfile", t.keyfile_path>> >> ELSE <<>>)

\* lines 100-101: the command line of the child
Command(e, tokens) == <<"python", "-m", "uvicorn", e.app_path.v>> \o tokens

\* lines 225-238: uvicorn.run is called and blocks
StartDirect ==
    /\ pc = "body"
    /\ UseDirect(loc)
    /\ launches' = Append(launches, [strategy |-> "direct",
                                     call |-> UvicornKwargs(loc, env, tls),
                                     returncode |-> None])
    /\ trace' = Append(trace, Ev("start", 0, "direct"))
    /\ pc' = "uvicorn_run"
    /\ UNCHANGED <<cli, env, UVICORN_INSTALLED, obj_callable, environ,
                   app_attrs, loc, tls, managers, idx, obtained, stack, exc,
                   received, suppressed_exc, pending_raise, phase, result,
                   args, process_args>>

\* lines 239-259 and 83-103: the child process is started and waited for
StartSubprocess ==
    /\ pc = "body"
    /\ ~UseDirect(loc)
    /\ args' = ProcessArgs(loc, env, tls)
    /\ process_args' = _convert_uvicorn_args(args')
    /\ launches' = Append(launches, [strategy |-> "subprocess",
                                     call |-> Command(env, process_args'),
                                     returncode |-> None])
    /\ trace' = Append(trace, Ev("start", 0, "subprocess"))
    /\ pc' = "subprocess_run"
    /\ UNCHANGED <<cli, env, UVICORN_INSTALLED, obj_callable, environ,
                   app_attrs, loc, tls, managers, idx, obtained, stack, exc,
                   received, suppressed_exc, pending_raise, phase, result>>

\* the body of the with statement ends, by returning or with the exception e
LeaveBody(e) ==
    /\ trace' = Append(trace, Ev("stop", 0, IF e = NoExc THEN "return" ELSE "raise"))
    /\ exc' = e
    /\ received' = e
    /\ phase' = "exiting"
    /\ pc' = "exit_stack"

\* uvicorn.run returns when the server stops, or raises
UvicornRunEnds ==
    /\ pc = "uvicorn_run"
    /\ \E e \in {NoExc, Exc("Exception", 0), Exc("KeyboardInterrupt", 0)} :
          LeaveBody(e)
    /\ UNCHANGED <<cli, env, UVICORN_INSTALLED, obj_callable, environ,
                   app_attrs, loc, tls, managers, idx, obtained, stack,
                   suppressed_exc, pending_raise, launches, result, args,
                   process_args>>

\* the exit statuses a child is given in the model
ReturnCodes == {0, 1, 2}

\* subprocess.run without check=True
CheckReturncode_Unchecked(returncode) == NoExc

\* line 102, check=True: CalledProcessError with the child's status unless
\* that is 0
CheckReturncode(returncode) ==
    IF returncode = 0 THEN NoExc ELSE Exc("CalledProcessError", returncode)

\* lines 100-103, subprocess.run: the child exits, or the wait is interrupted
SubprocessRunEnds ==
    /\ pc = "subprocess_run"
    /\ \/ \E returncode \in ReturnCodes :
             /\ launches' = [launches EXCEPT ![Len(launches)].returncode = I(returncode)]
             /\ LeaveBody(CheckReturncode(returncode))
       \/ /\ launches' = launches
          /\ LeaveBody(Exc("KeyboardInterrupt", 0))
    /\ UNCHANGED <<cli, env, UVICORN_INSTALLED, obj_callable, environ,
                   app_attrs, loc, tls, managers, idx, obtained, stack,
                   suppressed_exc, pending_raise, result, args, process_args>>

(***************************************************************************)
(* contextlib.ExitStack.__exit__ and the generator context manager, as     *)
(* lines 47 and 41 use them.                                               *)
(***************************************************************************)
\* the callbacks run only when no exception came in
ExitLoopRuns_OnSuccessOnly == stack /= <<>> /\ received = NoExc

\* the loop given up as soon as a callback has raised
ExitLoopRuns_UntilRaise == stack /= <<>> /\ ~pending_raise

\* `while self._exit_callbacks`
ExitLoopRuns == stack /= <<>>

\* the callbacks taken first in, first out
NextCallback_Fifo(st) == 1

\* `self._exit_callbacks.pop()`: the position of the callback taken, the last
NextCallback(st) == Len(st)

\* one turn of __exit__'s loop: the last callback is popped and called with
\* the exception in flight; it returns false, returns true or raises
ExitCallback ==
    /\ pc = "exit_stack"
    /\ ExitLoopRuns
    /\ LET m == stack[NextCallback(stack)]
       IN  /\ stack' = [i \in 1..(Len(stack) - 1) |->
                            IF i < NextCallback(stack) THEN stack[i] ELSE stack[i + 1]]
           /\ \E out \in {"ok", "suppress", "raise"} :
                 /\ trace' = Append(trace, Ev("exit", m, out))
                 /\ CASE out = "ok" ->
                           UNCHANGED <<exc, suppressed_exc, pending_raise>>
                      [] out = "suppress" ->
                           /\ suppressed_exc' = TRUE
                           /\ pending_raise' = FALSE
                           /\ exc' = NoExc
                      [] out = "raise" ->
                           /\ pending_raise' = TRUE
                           /\ exc' = Exc("ExitError", m)
                           /\ suppressed_exc' = suppressed_exc
    /\ UNCHANGED <<pc, cli, env, UVICORN_INSTALLED, obj_callable, environ,
                   app_attrs, loc, tls, managers, idx, obtained, received,
                   phase, launches, result, args, process_args>>

\* __exit__ without its final `raise exc`
StackOutcome_NoPendingRaise ==
    IF received /= NoExc /\ ~suppressed_exc THEN received ELSE NoExc

\* __exit__ returning true whenever no callback raised
StackOutcome_Swallowing ==
    IF pending_raise THEN exc ELSE NoExc

\* what leaves the `with ExitStack()` block: the pending exception, the
\* received one unless suppressed, or nothing
StackOutcome ==
    IF pending_raise THEN exc
    ELSE IF received /= NoExc /\ ~suppressed_exc THEN received
    ELSE NoExc

\* what leaves run_command's with statement: a generator that ends before
\* its yield makes __enter__ raise RuntimeError
LifespanOutcome ==
    IF phase = "entering" /\ StackOutcome = NoExc
    THEN Exc("RuntimeError", 0)
    ELSE StackOutcome

\* __exit__'s loop is over; run_command returns or raises
CloseLifespan ==
    /\ pc = "exit_stack"
    /\ ~ExitLoopRuns
    /\ result' = LifespanOutcome
    /\ phase' = "closed"
    /\ pc' = "done"
    /\ UNCHANGED <<cli, env, UVICORN_INSTALLED, obj_callable, environ,
                   app_attrs, loc, tls, managers, idx, obtained, stack, trace,
                   exc, received, suppressed_exc, pending_raise, launches,
                   args, process_args>>

Next ==
    \/ SetEnviron
    \/ UvicornMissing
    \/ ResolveApp
    \/ ResolveConfig
    \/ ProvisionTLS
    \/ OpenLifespan
    \/ CallFactory
    \/ EnterContext
    \/ Yield
    \/ StartDirect
    \/ StartSubprocess
    \/ UvicornRunEnds
    \/ SubprocessRunEnds
    \/ ExitCallback
    \/ CloseLifespan

\* run_command with any manager list, one option away from the defaults
Spec == Init /\ [][Next]_vars

\* run_command with several options and attributes set at once
SpecConfig == InitConfig /\ [][Next]_vars

\* run_command under the assumption that every call it makes comes back:
\* the single control thread always takes its next step
SpecLive == Init /\ [][Next]_vars /\ WF_vars(Next)

(***************************************************************************)
(* _convert_uvicorn_args on its own, given any small mapping.              *)
(***************************************************************************)
ConvertKeys == {"reload", "host", "port", "reload-dir"}
ConvertValues ==
    {B(TRUE), B(FALSE), S("0.0.0.0"), I(9000), None, T(<<>>),
     T(<<S("a"), S("b")>>)}

\* a dict: keys are distinct, items keep their insertion order
Mappings(n) ==
    UNION {{a \in [1..k -> ConvertKeys \X ConvertValues] :
               \A i \in 1..k, j \in 1..k : a[i][1] = a[j][1] => i = j} :
           k \in 0..n}

InitConvert ==
    /\ pc = "convert"
    /\ args \in Mappings(MaxArgs)
    /\ InitRest({}, <<>>)

\* lines 56-67, called with args
Convert ==
    /\ pc = "convert"
    /\ process_args' = _convert_uvicorn_args(args)
    /\ pc' = "converted"
    /\ UNCHANGED <<cli, env, UVICORN_INSTALLED, obj_callable, environ,
                   app_attrs, loc, tls, managers, idx, obtained, stack, trace,
                   exc, received, suppressed_exc, pending_raise, phase,
                   launches, result, args>>

NextConvert == Convert

\* _convert_uvicorn_args applied to every mapping of at most MaxArgs items
SpecConvert == InitConvert /\ [][NextConvert]_vars

(***************************************************************************)
(* What the trace says.                                                    *)
(***************************************************************************)
IsEntered(e) == e.ev = "enter" /\ e.out = "ok"
IsExit(e) == e.ev = "exit"
IsAcquire(e) == e.ev \in {"call", "enter"}
Ms(q) == [i \in 1..Len(q) |-> q[i].m]
\* the managers entered, and the managers exited, each in the order it
\* happened
Entered == Ms(SelectSeq(trace, IsEntered))
Exited == Ms(SelectSeq(trace, IsExit))
Reverse(q) == [i \in 1..Len(q) |-> q[Len(q) + 1 - i]]
Positions(ev) == {i \in 1..Len(trace) : trace[i].ev = ev}
Started == Positions("start") /= {}
Stopped == Positions("stop") /= {}
ServerRaised == \E i \in Positions("stop") : trace[i].out = "raise"
Closed == pc = "done" /\ phase = "closed"
\* the positions where acquiring a manager failed
AcquireFailures == {i \in 1..Len(trace) : IsAcquire(trace[i]) /\ trace[i].out = "raise"}
ExitOutcomes == {trace[i].out : i \in Positions("exit")}

(***************************************************************************)
(* C1. Once the body of the with statement has run, exactly one server     *)
(* strategy was started; it is uvicorn.run if and only if workers == 1 and *)
(* reload is false, the child process if and only if workers > 1 or reload *)
(* is true; never are two started.                                         *)
(***************************************************************************)
C1_OneStrategy ==
    /\ Len(launches) <= 1
    /\ (pc \in {"uvicorn_run", "subprocess_run"} \/ Stopped) =>
          /\ Len(launches) = 1
          /\ launches[1].strategy \in {"direct", "subprocess"}
          /\ launches[1].strategy = "direct" <=>
                (loc.workers.v = 1 /\ loc.reload = B(FALSE))
          /\ launches[1].strategy = "subprocess" <=>
                (loc.workers.v > 1 \/ loc.reload = B(TRUE))
          /\ pc = "uvicorn_run" => launches[1].strategy = "direct"
          /\ pc = "subprocess_run" => launches[1].strategy = "subprocess"

\* one worker and --reload: the child process is used
C1_Witness ==
    /\ Stopped
    /\ loc.workers = I(1)
    /\ loc.reload = B(TRUE)
    /\ launches[1].strategy = "subprocess"

(***************************************************************************)
(* C2. The managers are exited in the reverse of the order they were       *)
(* entered in, each once, whichever releases raise: what has been exited   *)
(* so far is the start of the reversed list of entered managers, and when  *)
(* the scope is closed it is all of it.                                    *)
(***************************************************************************)
C2_ReverseRelease ==
    /\ Len(Exited) <= Len(Entered)
    /\ \A i \in 1..Len(Exited) : Exited[i] = Entered[Len(Entered) + 1 - i]
    /\ Closed => Exited = Reverse(Entered)

\* [A, B, C], the server raises, B's release raises: exits are C, B, A
C2_Witness ==
    /\ Closed
    /\ Len(managers) = 3
    /\ ServerRaised
    /\ \E i \in Positions("exit") : trace[i].m = 2 /\ trace[i].out = "raise"
    /\ Entered = <<1, 2, 3>>
    /\ Exited = <<3, 2, 1>>

(***************************************************************************)
(* C3. When acquiring manager k fails, in its factory call or its enter,   *)
(* nothing is acquired after it, the managers entered are exactly 1..k-1,  *)
(* none was entered twice, no server is started, and when run_command ends *)
(* those k-1 have been exited in reverse order and an error reaches the    *)
(* caller.                                                                 *)
(***************************************************************************)
C3_AcquireFailure ==
    \A i \in AcquireFailures :
        LET k == trace[i].m
        IN  /\ \A j \in (i + 1)..Len(trace) : ~IsAcquire(trace[j])
            /\ Entered = [n \in 1..(k - 1) |-> n]
            /\ ~Started
            /\ launches = <<>>
            /\ pc \in {"exit_stack", "done"}
            /\ pc = "done" =>
                  /\ Exited = Reverse([n \in 1..(k - 1) |-> n])
                  /\ stack = <<>>
                  /\ result /= NoExc

\* the third manager's enter raises after two were entered
C3_Witness ==
    /\ Closed
    /\ \E i \in AcquireFailures : trace[i].m = 3 /\ trace[i].ev = "enter"
    /\ Exited = <<2, 1>>

(***************************************************************************)
(* C4. A server strategy starts only when every registered manager has     *)
(* been entered; while it runs no manager is exited; once it has returned  *)
(* or raised, by an error or an interrupt, nothing but the releases        *)
(* follows, and run_command ends with every manager exited.                *)
(***************************************************************************)
C4_ServerInsideScope ==
    /\ \A i \in Positions("start") :
          /\ Ms(SelectSeq(SubSeq(trace, 1, i - 1), IsEntered))
                = [n \in 1..Len(managers) |-> n]
          /\ \A j \in 1..i : ~IsExit(trace[j])
    /\ pc \in {"uvicorn_run", "subprocess_run"} =>
          /\ Exited = <<>>
          /\ stack = [n \in 1..Len(managers) |-> n]
    /\ \A i \in Positions("stop") :
          /\ pc \in {"exit_stack", "done"}
          /\ \A j \in (i + 1)..Len(trace) : IsExit(trace[j])
          /\ pc = "done" => Exited = Reverse([n \in 1..Len(managers) |-> n])

\* an interrupt ends the server and all three managers are exited
C4_Witness ==
    /\ Closed
    /\ Len(managers) = 3
    /\ received = Exc("KeyboardInterrupt", 0)
    /\ Exited = <<3, 2, 1>>

(***************************************************************************)
(* C5 as stated. When the release of a manager raised, run_command ends    *)
(* with an error, whatever the other releases did.                         *)
(***************************************************************************)
C5_ReleaseFailureReported ==
    (Closed /\ "raise" \in ExitOutcomes) => result /= NoExc

\* the releases after position i that asked for the exception in flight to
\* be suppressed
SuppressedAfter(i) ==
    {j \in Positions("exit") : j > i /\ trace[j].out = "suppress"}
RaisedAfter(i) ==
    {j \in Positions("exit") : j > i /\ trace[j].out = "raise"}

(***************************************************************************)
(* C5, amended. When the release of a manager raised, every manager        *)
(* entered is still exited, and run_command ends with an error unless a    *)
(* manager released after the failing one asked for the exception to be    *)
(* suppressed: the error of the last release that raised reaches the       *)
(* caller when no later release suppresses it.                             *)
(***************************************************************************)
C5_ReleaseFailureUnlessSuppressed ==
    Closed =>
        \A i \in Positions("exit") :
            trace[i].out = "raise" =>
                /\ Exited = Reverse(Entered)
                /\ SuppressedAfter(i) = {} => result /= NoExc
                /\ (SuppressedAfter(i) = {} /\ RaisedAfter(i) = {}) =>
                      result = Exc("ExitError", trace[i].m)

\* the release of C raises, those of B and A return: C's error comes out
C5_Witness ==
    /\ Closed
    /\ Exited = <<3, 2, 1>>
    /\ received = NoExc
    /\ \E i \in Positions("exit") :
          /\ trace[i].m = 3 /\ trace[i].out = "raise"
          /\ \A j \in Positions("exit") : j /= i => trace[j].out = "ok"
    /\ result = Exc("ExitError", 3)

(***************************************************************************)
(* C6 as stated. Under the direct strategy an exception raised by          *)
(* uvicorn.run reaches the caller of run_command, whatever the managers    *)
(* are.                                                                    *)
(***************************************************************************)
C6_ServerErrorPropagates ==
    (Closed /\ ServerRaised /\ launches[1].strategy = "direct") =>
        result = received

(***************************************************************************)
(* C6, amended. Under the direct strategy, when uvicorn.run raises, every  *)
(* manager is exited before run_command ends, and the exception reaches    *)
(* the caller exactly when no release asks for suppression and no release  *)
(* raises; otherwise the caller gets the release's error or none.          *)
(***************************************************************************)
C6_ServerErrorUnlessReleaseInterferes ==
    (Closed /\ ServerRaised /\ launches[1].strategy = "direct") =>
        /\ Exited = Reverse([n \in 1..Len(managers) |-> n])
        /\ received \in {Exc("Exception", 0), Exc("KeyboardInterrupt", 0)}
        /\ result = received <=> ExitOutcomes \subseteq {"ok"}
        /\ result /= received => result.type \in {"none", "ExitError"}

\* uvicorn.run raises, three managers are exited, the exception comes out
C6_Witness ==
    /\ Closed
    /\ launches /= <<>>
    /\ launches[1].strategy = "direct"
    /\ received = Exc("Exception", 0)
    /\ Exited = <<3, 2, 1>>
    /\ result = Exc("Exception", 0)

(***************************************************************************)
(* C7 as stated. Under the subprocess strategy, a child that exits         *)
(* non-zero makes run_command fail with the error that carries the         *)
(* child's status; the child is started once and every manager is exited   *)
(* first.                                                                  *)
(***************************************************************************)
ChildFailed ==
    /\ launches /= <<>>
    /\ launches[1].strategy = "subprocess"
    /\ launches[1].returncode \notin {None, I(0)}

C7_LaunchErrorReachesCaller ==
    (Closed /\ ChildFailed) =>
        /\ result = Exc("CalledProcessError", launches[1].returncode.v)
        /\ Len(launches) = 1
        /\ Exited = Reverse(Entered)

(***************************************************************************)
(* C7, amended. Under the subprocess strategy, a child that exits non-zero *)
(* raises, inside the lifespan scope, the error that carries the child's   *)
(* status; the child is started once, never again; every manager is exited *)
(* before run_command ends; and that error reaches the caller exactly when *)
(* no release asks for suppression and no release raises.                  *)
(***************************************************************************)
C7_LaunchErrorUnlessReleaseInterferes ==
    ChildFailed =>
        /\ Len(launches) = 1
        /\ Cardinality(Positions("start")) = 1
        /\ received = Exc("CalledProcessError", launches[1].returncode.v)
        /\ pc \in {"exit_stack", "done"}
        /\ Closed =>
              /\ Exited = Reverse([n \in 1..Len(managers) |-> n])
              /\ result = received <=> ExitOutcomes \subseteq {"ok"}
              /\ result /= received => result.type \in {"none", "ExitError"}

\* the child exits with status 2 and the error comes out after three exits
C7_Witness ==
    /\ Closed
    /\ ChildFailed
    /\ launches[1].returncode = I(2)
    /\ Exited = <<3, 2, 1>>
    /\ result = Exc("CalledProcessError", 2)

(***************************************************************************)
(* C8. _convert_uvicorn_args: true gives the bare token --name, false      *)
(* gives nothing, a tuple gives one --name=item per element in element     *)
(* order, anything else gives the one token --name=value, and the tokens   *)
(* follow the mapping's insertion order.  The two mappings of the          *)
(* specification give the tokens it lists.                                 *)
(***************************************************************************)
\* how many tokens the rules give an item
TokenCount(value) ==
    CASE value = B(TRUE) -> 1
      [] value = B(FALSE) -> 0
      [] value.t = "tuple" -> Len(value.v)
      [] OTHER -> 1

\* the k-th token the rules give an item
RuleToken(arg, value, k) ==
    CASE value = B(TRUE) -> "--" \o arg
      [] value.t = "tuple" -> "--" \o arg \o "=" \o Str(value.v[k])
      [] OTHER -> "--" \o arg \o "=" \o Str(value)

\* where the tokens of item i start: after those of the items before it
RECURSIVE TokenOffset(_, _)
TokenOffset(a, i) ==
    IF i = 1 THEN 0 ELSE TokenOffset(a, i - 1) + TokenCount(a[i - 1][2])

SpecExample ==
    << <<"reload", B(TRUE)>>, <<"host", S("0.0.0.0")>>,
       <<"reload-dir", T(<<S("a"), S("b")>>)>> >>

C8_ConvertRules ==
    pc = "converted" =>
        /\ Len(process_args) = TokenOffset(args, Len(args) + 1)
        /\ \A i \in 1..Len(args) :
              \A k \in 1..TokenCount(args[i][2]) :
                  process_args[TokenOffset(args, i) + k]
                      = RuleToken(args[i][1], args[i][2], k)
        /\ args = SpecExample =>
              process_args = <<"--reload", "--host=0.0.0.0", "--reload-dir=a",
                               "--reload-dir=b">>
        /\ args = << <<"reload", B(FALSE)>> >> => process_args = <<>>

\* the first mapping of the specification has been converted
C8_Witness ==
    /\ pc = "converted"
    /\ args = SpecExample
    /\ Len(process_args) = 4

(***************************************************************************)
(* C9. With CLI port p and CLI worker count w > 1, no --reload, no         *)
(* --reload-dir, and an environment that supplies no port, worker count,   *)
(* reload or reload directories, the child process is started and its      *)
(* command line holds --port=p and --workers=w and not --reload.           *)
(***************************************************************************)
InSeq(x, q) == \E i \in 1..Len(q) : q[i] = x

C9_Precondition ==
    /\ cli.wc.v > 1
    /\ cli.reload = B(FALSE)
    /\ cli.reload_dir = T(<<>>)
    /\ env.port = None
    /\ env.web_concurrency = None
    /\ env.reload \in {None, B(FALSE)}
    /\ env.reload_dirs \in {None, T(<<>>)}

C9_PortAndWorkers ==
    (C9_Precondition /\ (Started \/ (Closed /\ AcquireFailures = {}))) =>
        /\ Len(launches) = 1
        /\ launches[1].strategy = "subprocess"
        /\ InSeq("--port=" \o ToString(cli.port.v), launches[1].call)
        /\ InSeq("--workers=" \o ToString(cli.wc.v), launches[1].call)
        /\ ~InSeq("--reload", launches[1].call)
        /\ SubSeq(launches[1].call, 1, 4) = <<"python", "-m", "uvicorn", "app:app">>

\* --port 9000 --web-concurrency 4
C9_Witness ==
    /\ C9_Precondition
    /\ cli.port = I(9000)
    /\ cli.wc = I(4)
    /\ Started
    /\ InSeq("--port=9000", launches[1].call)
    /\ InSeq("--workers=4", launches[1].call)

(***************************************************************************)
(* C10 as stated. Each of host, port, workers, fd, uds, the reload         *)
(* directories and the TLS certificate and key paths is the value of the   *)
(* environment when that is not empty, else the CLI flag's value, which is *)
(* the flag's default when the flag is not given.                          *)
(***************************************************************************)
\* a if it is set, else b
FirstSet(a, b) == IF a.t /= "none" THEN a ELSE b
\* a if it is set and not empty or zero, else b
FirstFilled(a, b) ==
    IF a \notin {None, S(""), I(0), T(<<>>), B(FALSE)} THEN a ELSE b

Resolved == pc \notin {"start", "check_uvicorn", "resolve", "convert", "converted"}
                /\ loc /= NoLoc

BindFieldsEnvFirst ==
    /\ loc.host = FirstFilled(env.host, cli.host)
    /\ loc.port = FirstSet(env.port, cli.port)
    /\ loc.workers = FirstFilled(env.web_concurrency, cli.wc)
    /\ loc.fd = FirstSet(env.fd, cli.fd)
    /\ loc.uds = FirstFilled(env.uds, cli.uds)
    /\ loc.reload_dirs = FirstFilled(env.reload_dirs, cli.reload_dir)

C10_EnvThenCli ==
    Resolved =>
        /\ BindFieldsEnvFirst
        /\ loc.ssl_certfile = FirstFilled(env.certfile_path, cli.ssl_certfile)
        /\ loc.ssl_keyfile = FirstFilled(env.keyfile_path, cli.ssl_keyfile)

(***************************************************************************)
(* C10, amended. host, port, workers, fd, uds and the reload directories   *)
(* take the environment's value first (port and fd whenever it is not      *)
(* None, the others whenever it is truthy), else the CLI value; the TLS    *)
(* certificate and key paths take the CLI flag's value first and the       *)
(* environment's only when the flag is not given.                          *)
(***************************************************************************)
C10_EnvThenCliButTlsCliFirst ==
    Resolved =>
        /\ BindFieldsEnvFirst
        /\ loc.ssl_certfile = FirstFilled(cli.ssl_certfile, env.certfile_path)
        /\ loc.ssl_keyfile = FirstFilled(cli.ssl_keyfile, env.keyfile_path)

\* --ssl-certfile is given and the environment names another certificate
C10_Witness ==
    /\ Resolved
    /\ cli.ssl_certfile = S("c.pem")
    /\ env.certfile_path = S("ec.pem")
    /\ loc.ssl_certfile = S("c.pem")

(***************************************************************************)
(* C11. The boolean flags are merged by OR: reload is true if and only if  *)
(* the environment enables it, or --reload is given, or the resolved       *)
(* reload directories are not empty, so that a reload directory alone      *)
(* selects the child process even with one worker;                         *)
(* create_self_signed_cert is true if and only if the CLI flag or the      *)
(* environment enables it.  A true from one source is never undone by a    *)
(* false from another.                                                     *)
(***************************************************************************)
C11_BooleanOr ==
    Resolved =>
        /\ loc.reload \in {B(TRUE), B(FALSE)}
        /\ loc.reload = B(TRUE) <=>
              \/ env.reload = B(TRUE)
              \/ cli.reload = B(TRUE)
              \/ (loc.reload_dirs.t = "tuple" /\ Len(loc.reload_dirs.v) > 0)
        /\ loc.create_self_signed_cert \in {B(TRUE), B(FALSE)}
        /\ loc.create_self_signed_cert = B(TRUE) <=>
              \/ cli.create_self_signed_cert = B(TRUE)
              \/ env.create_self_signed_cert = B(TRUE)
        /\ (Started /\ loc.reload = B(TRUE)) => launches[1].strategy = "subprocess"

\* one worker, no --reload, the environment says reload is off, and
\* --reload-dir alone starts the child process
C11_Witness ==
    /\ Started
    /\ loc.workers = I(1)
    /\ cli.reload = B(FALSE)
    /\ env.reload = B(FALSE)
    /\ cli.reload_dir = T(<<S("a"), S("b")>>)
    /\ loc.reload = B(TRUE)
    /\ launches[1].strategy = "subprocess"

(***************************************************************************)
(* C12. When a file descriptor and a unix socket both resolve to a value,  *)
(* run_command fails at once with a configuration error: the lifespan      *)
(* scope is never opened, no manager is entered and no server is started.  *)
(***************************************************************************)
C12_FdAndUdsRejected ==
    (Resolved /\ loc.fd /= None /\ loc.uds /= None) =>
        /\ phase = "idle"
        /\ trace = <<>>
        /\ launches = <<>>
        /\ pc \in {"ssl", "done"}
        /\ pc = "done" => result = Exc("ConfigurationError", 0)

(***************************************************************************)
(* C13. In every launch at most one binding mode among the file            *)
(* descriptor, the unix socket and (host, port) is handed to the server:   *)
(* as a keyword argument of uvicorn.run that is not None, or as a flag     *)
(* token of the child's command line.                                      *)
(***************************************************************************)
\* the binding modes a launch hands to uvicorn
ModesHanded(launch) ==
    IF launch.strategy = "direct"
    THEN (IF launch.call.fd /= None THEN {"fd"} ELSE {})
         \cup (IF launch.call.uds /= None THEN {"uds"} ELSE {})
         \cup (IF launch.call.host /= None \/ launch.call.port /= None
               THEN {"host, port"} ELSE {})
    ELSE (IF InSeq("--fd=" \o Str(loc.fd), launch.call) THEN {"fd"} ELSE {})
         \cup (IF InSeq("--uds=" \o Str(loc.uds), launch.call) THEN {"uds"} ELSE {})
         \cup (IF \/ InSeq("--host=" \o Str(loc.host), launch.call)
                  \/ InSeq("--port=" \o Str(loc.port), launch.call)
               THEN {"host, port"} ELSE {})

C13_OneBindingMode ==
    \A i \in 1..Len(launches) : Cardinality(ModesHanded(launches[i])) <= 1

(***************************************************************************)
(* C14. The TLS files are settled before the lifespan scope opens:         *)
(* create_ssl_files is called if and only if create_self_signed_cert       *)
(* resolved true, validate_ssl_file_paths otherwise; when that call fails  *)
(* with a configuration error, as it does when only one of the two paths   *)
(* is given, run_command ends with no manager entered and no server        *)
(* started; otherwise both strategies get the two paths the call returned. *)
(***************************************************************************)
\* the value the mapping gives a key, None when the key is absent
ArgValue(a, key) ==
    IF \E i \in 1..Len(a) : a[i][1] = key
    THEN a[CHOOSE i \in 1..Len(a) : a[i][1] = key][2]
    ELSE None

C14_TlsBeforeLifespan ==
    /\ (\/ phase /= "idle"
        \/ \E i \in 1..Len(trace) : IsAcquire(trace[i])
        \/ launches /= <<>>) =>
          tls.op \in {"create_ssl_files", "validate_ssl_file_paths"}
    /\ tls.op /= "none" =>
          (tls.op = "create_ssl_files" <=> loc.create_self_signed_cert = B(TRUE))
    /\ (/\ tls.op = "validate_ssl_file_paths"
        /\ (loc.ssl_certfile = None) /= (loc.ssl_keyfile = None)) =>
          result = Exc("ConfigurationError", 0)
    /\ result = Exc("ConfigurationError", 0) =>
          /\ pc = "done"
          /\ phase = "idle"
          /\ trace = <<>>
          /\ launches = <<>>
    /\ \A i \in 1..Len(launches) :
          IF launches[i].strategy = "direct"
          THEN /\ launches[i].call.ssl_certfile = tls.certfile_path
               /\ launches[i].call.ssl_keyfile = tls.keyfile_path
          ELSE /\ ArgValue(args, "ssl-certfile") = tls.certfile_path
               /\ ArgValue(args, "ssl-keyfile") = tls.keyfile_path
               /\ tls.certfile_path /= None =>
                     InSeq("--ssl-certfile=" \o Str(tls.certfile_path), launches[i].call)
               /\ tls.keyfile_path /= None =>
                     InSeq("--ssl-keyfile=" \o Str(tls.keyfile_path), launches[i].call)

\* only --ssl-certfile is given: the command ends before the scope opens
C14_Witness ==
    /\ pc = "done"
    /\ result = Exc("ConfigurationError", 0)
    /\ loc.ssl_certfile = S("c.pem")
    /\ loc.ssl_keyfile = None
    /\ tls.op = "validate_ssl_file_paths"
    /\ trace = <<>>

(***************************************************************************)
(* C15. When uvicorn is not installed, run_command prints one message and  *)
(* exits with code 1: ctx.obj is not resolved, no option is resolved, no   *)
(* TLS function is called, no manager is called or entered, no server or   *)
(* child process is started, and nothing is tried a second time.           *)
(***************************************************************************)
C15_MissingUvicornExits ==
    ~UVICORN_INSTALLED =>
        /\ pc \in {"start", "check_uvicorn", "done"}
        /\ loc = NoLoc
        /\ tls = NoTls
        /\ app_attrs = {}
        /\ phase = "idle"
        /\ launches = <<>>
        /\ stack = <<>>
        /\ IF pc = "done"
           THEN /\ result = Exc("SystemExit", 1)
                /\ trace = <<Ev("print", 0, "uvicorn is not installed")>>
           ELSE /\ result = NoExc
                /\ trace = <<>>

C15_Witness ==
    /\ ~UVICORN_INSTALLED
    /\ pc = "done"
    /\ result = Exc("SystemExit", 1)
    /\ managers /= <<>>
    /\ Len(trace) = 1
    /\ trace[1].ev = "print"

(***************************************************************************)
(* C16. The flag tokens of the child's command line follow the order of    *)
(* the option mapping.  As stated, that order is workers, host, port, then *)
(* the extras; C16_WorkersHostPort is that statement.  The mapping is      *)
(* built as reload, host, port, workers, factory, then fd, uds,            *)
(* reload-dir, ssl-certfile, ssl-keyfile, and C16_TokensInMappingOrder     *)
(* says that every command line has its tokens in this order, each item's  *)
(* tokens next to each other.                                              *)
(***************************************************************************)
Pos(x, q) == CHOOSE i \in 1..Len(q) : q[i] = x
SubprocessLaunches == {i \in 1..Len(launches) : launches[i].strategy = "subprocess"}

C16_WorkersHostPort ==
    \A i \in SubprocessLaunches :
        LET call == launches[i].call
            w == "--workers=" \o Str(loc.workers)
            h == "--host=" \o Str(loc.host)
            p == "--port=" \o Str(loc.port)
        IN  /\ InSeq(w, call) /\ InSeq(h, call) /\ InSeq(p, call)
            /\ Pos(w, call) < Pos(h, call)
            /\ Pos(h, call) < Pos(p, call)

MappingOrder ==
    <<"reload", "host", "port", "workers", "factory", "fd", "uds",
      "reload-dir", "ssl-certfile", "ssl-keyfile">>
Rank(key) == CHOOSE n \in 1..Len(MappingOrder) : MappingOrder[n] = key

C16_TokensInMappingOrder ==
    \A i \in SubprocessLaunches :
        LET call == launches[i].call IN
        /\ \A j \in 1..Len(args) :
              \E n \in 1..Len(MappingOrder) : MappingOrder[n] = args[j][1]
        /\ \A j, k \in 1..Len(args) :
              j < k => Rank(args[j][1]) < Rank(args[k][1])
        /\ Len(call) = 4 + TokenOffset(args, Len(args) + 1)
        /\ \A j \in 1..Len(args) :
              \A n \in 1..TokenCount(args[j][2]) :
                  call[4 + TokenOffset(args, j) + n]
                      = RuleToken(args[j][1], args[j][2], n)

\* four workers and a descriptor: --workers=4 comes after --port and before --fd
C16_Witness ==
    /\ SubprocessLaunches /= {}
    /\ loc.workers = I(4)
    /\ loc.fd = I(0)
    /\ launches[1].call = <<"python", "-m", "uvicorn", env.app_path.v,
                            "--host=" \o Str(loc.host), "--port=" \o Str(loc.port),
                            "--workers=4", "--fd=0">>

(***************************************************************************)
(* C17. Managers are acquired in registration order.  A manager that is    *)
(* not a context manager is called once, the call (manager(app), line 50)  *)
(* coming right before its enter and after every earlier manager was       *)
(* entered; a context manager is entered without being called; no manager  *)
(* is entered twice.                                                       *)
(***************************************************************************)
AcquirePositions == {i \in 1..Len(trace) : IsAcquire(trace[i])}

C17_AcquireInOrder ==
    /\ \A i \in AcquirePositions :
          /\ trace[i].m \in 1..Len(managers)
          \* every earlier manager has been entered before
          /\ \A n \in 1..(trace[i].m - 1) :
                \E j \in 1..(i - 1) : trace[j] = Ev("enter", n, "ok")
          \* no later manager has been touched before
          /\ \A j \in AcquirePositions : j < i => trace[j].m <= trace[i].m
    /\ \A i \in Positions("enter") :
          IF managers[trace[i].m] = "factory"
          THEN i > 1 /\ trace[i - 1] = Ev("call", trace[i].m, "ok")
          ELSE \A j \in Positions("call") : trace[j].m /= trace[i].m
    /\ \A i \in Positions("call") :
          /\ managers[trace[i].m] = "factory"
          /\ (trace[i].out = "ok" /\ i < Len(trace)) =>
                (trace[i + 1].ev = "enter" /\ trace[i + 1].m = trace[i].m)
    /\ \A i, j \in AcquirePositions :
          (trace[i].ev = trace[j].ev /\ trace[i].m = trace[j].m) => i = j

C17_Witness ==
    /\ managers = <<"factory", "context_manager", "factory">>
    /\ Closed
    /\ Entered = <<1, 2, 3>>
    /\ Cardinality(Positions("call")) = 2

(***************************************************************************)
(* C18. With --debug, LITESTAR_DEBUG is in os.environ before ctx.obj is    *)
(* resolved and before a server starts, whether ctx.obj is still a         *)
(* callable or already the loaded application; with --pdb the same holds   *)
(* for LITESTAR_PDB; and when ctx.obj is already loaded, app.debug and     *)
(* app.pdb_on_exception are set as well.  Nothing sets a flag that was not *)
(* asked for.                                                              *)
(***************************************************************************)
C18_DebugFlagsSet ==
    /\ pc \notin {"start", "convert", "converted"} =>
          /\ "LITESTAR_DEBUG" \in environ <=> cli.debug = B(TRUE)
          /\ "LITESTAR_PDB" \in environ <=> cli.pdb = B(TRUE)
    /\ (UVICORN_INSTALLED /\ pc \notin {"start", "check_uvicorn", "convert", "converted"}) =>
          IF obj_callable
          THEN app_attrs = {}
          ELSE /\ "debug" \in app_attrs <=> cli.debug = B(TRUE)
               /\ "pdb_on_exception" \in app_attrs <=> cli.pdb = B(TRUE)
    /\ pc \in {"start", "check_uvicorn"} => app_attrs = {} /\ launches = <<>>

\* --debug --pdb on the loaded application, the server running
C18_Witness ==
    /\ cli.debug = B(TRUE)
    /\ cli.pdb = B(TRUE)
    /\ ~obj_callable
    /\ Started
    /\ environ = {"LITESTAR_DEBUG", "LITESTAR_PDB"}
    /\ app_attrs = {"debug", "pdb_on_exception"}

(***************************************************************************)
(* C19. The option mapping of the subprocess strategy always has reload,   *)
(* host, port, workers and factory, with the resolved values, and has fd,  *)
(* uds, ssl-certfile, ssl-keyfile exactly when the value is not None (a    *)
(* descriptor 0 is passed) and reload-dir exactly when the directory list  *)
(* is not empty; so --factory is on the command line exactly when the      *)
(* application is a factory and --reload exactly when reload is true.      *)
(***************************************************************************)
Keys(a) == {a[i][1] : i \in 1..Len(a)}

C19_MappingContents ==
    \A i \in SubprocessLaunches :
        LET call == launches[i].call IN
        /\ {"reload", "host", "port", "workers", "factory"} \subseteq Keys(args)
        /\ \A j, k \in 1..Len(args) : args[j][1] = args[k][1] => j = k
        /\ ArgValue(args, "reload") = loc.reload
        /\ ArgValue(args, "host") = loc.host
        /\ ArgValue(args, "port") = loc.port
        /\ ArgValue(args, "workers") = loc.workers
        /\ ArgValue(args, "factory") = env.is_app_factory
        /\ "fd" \in Keys(args) <=> loc.fd /= None
        /\ "uds" \in Keys(args) <=> loc.uds /= None
        /\ "reload-dir" \in Keys(args) <=>
              (loc.reload_dirs /= None /\ loc.reload_dirs.v /= <<>>)
        /\ "ssl-certfile" \in Keys(args) <=> tls.certfile_path /= None
        /\ "ssl-keyfile" \in Keys(args) <=> tls.keyfile_path /= None
        /\ ArgValue(args, "fd") = loc.fd
        /\ ArgValue(args, "uds") = loc.uds
        /\ "reload-dir" \in Keys(args) => ArgValue(args, "reload-dir") = loc.reload_dirs
        /\ loc.fd /= None => InSeq("--fd=" \o Str(loc.fd), call)
        /\ InSeq("--factory", call) <=> env.is_app_factory = B(TRUE)
        /\ InSeq("--reload", call) <=> loc.reload = B(TRUE)

\* --reload --fd 0: the descriptor 0 is on the command line
C19_Witness ==
    /\ SubprocessLaunches /= {}
    /\ cli.reload = B(TRUE)
    /\ loc.fd = I(0)
    /\ "fd" \in Keys(args)
    /\ InSeq("--fd=0", launches[1].call)
    /\ InSeq("--reload", launches[1].call)
    /\ ~InSeq("--factory", launches[1].call)

(***************************************************************************)
(* C20. Provided every call comes back, every invocation of run_command    *)
(* ends.  As stated, every invocation ends in the Closed state;            *)
(* C20_DoneIsClosed is that statement, and an invocation that stops at the *)
(* uvicorn guard or at the TLS files ends while the lifecycle is still     *)
(* Idle.  C20_TerminatesForwardOnly: every invocation ends; one that       *)
(* opened the lifespan scope ends Closed, with every entered manager       *)
(* exited exactly once and none left on the stack; one that did not ends   *)
(* Idle with an exception and no manager touched; and the lifecycle never  *)
(* goes back from a later state to an earlier one.                         *)
(***************************************************************************)
PhaseRank(p) ==
    CASE p = "idle" -> 0
      [] p = "entering" -> 1
      [] p = "active" -> 2
      [] p = "exiting" -> 3
      [] p = "closed" -> 4

ExitedOnce ==
    /\ \A i \in 1..Len(Entered) :
          Cardinality({j \in Positions("exit") : trace[j].m = Entered[i]}) = 1
    /\ \A j \in Positions("exit") : InSeq(trace[j].m, Entered)

C20_DoneIsClosed == pc = "done" => phase = "closed"

C20_TerminatesForwardOnly ==
    /\ <>(pc = "done")
    /\ [](phase /= "idle" => <>Closed)
    /\ [](phase = "closed" => (pc = "done" /\ stack = <<>> /\ ExitedOnce))
    /\ []((pc = "done" /\ phase /= "closed") =>
             (phase = "idle" /\ result /= NoExc /\ AcquirePositions = {}
              /\ launches = <<>>))
    /\ [][PhaseRank(phase') >= PhaseRank(phase)]_vars

\* three managers entered, the server raised, one release raised: Closed
\* with nothing left on the stack
C20_Witness ==
    /\ Closed
    /\ Entered = <<1, 2, 3>>
    /\ ServerRaised
    /\ "raise" \in ExitOutcomes
    /\ stack = <<>>
    /\ Len(Exited) = 3

====
